---- MODULE Spec2Model ----
(***************************************************************************)
(* Model of cycletls/index.go: the CycleTLS handle (client cache and the   *)
(* two channels), processRequest, dispatcher, Do, Queue, Init, Close and   *)
(* the worker pool.                                                        *)
(*                                                                         *)
(* Spec       the handle shared by concurrent callers, the workers and a   *)
(*            reader of RespChan; processRequest is split at its accesses  *)
(*            to the shared cache map.                                     *)
(* SpecSeq    the same handle with calls made one after another.           *)
(* SpecBuild  the header part of processRequest as a function of its       *)
(*            options, applied to inputs drawn from bounded sets.          *)
(* SpecDispatch  dispatcher as a function of the request and of what the   *)
(*            transport answers, applied to inputs drawn from bounded sets.*)
(***************************************************************************)
EXTENDS Integers, Sequences, FiniteSets, TLC

(***************************************************************************)
(* Bounds                                                                  *)
(***************************************************************************)
NumCallers == 2
NumWorkers == 2
MaxCalls == 2

Callers == 1..NumCallers
Workers == 1..NumWorkers

(***************************************************************************)
(* Inputs                                                                  *)
(***************************************************************************)
\* Target URLs handed to Do/Queue; the last one does not parse.
URLs == {"http://a/", "http://b/", "http://[bad"}

\* url.Parse (lines 139, 222): whether the URL parses, and its Host.
UrlParses(u) == u # "http://[bad"

UrlHost(u) ==
  CASE u = "http://a/" -> "a"
    [] u = "http://b/" -> "b"
    [] OTHER -> ""

\* The Options of a call: cfg is what newClient is configured from (Ja3,
\* UserAgent, Cookies, Timeout, DisableRedirect, Proxy), one token per
\* configuration, "badproxy" having a proxy URL that newClient rejects;
\* Method is the method string, of which http.NewRequest rejects "g t".
OptionSet ==
  {[cfg |-> "cfg1", Method |-> "get"], [cfg |-> "cfg2", Method |-> "get"],
   [cfg |-> "badproxy", Method |-> "get"], [cfg |-> "cfg1", Method |-> "g t"]}

newClientOk(cfg) == cfg # "badproxy"

NewRequestOk(m) == m # "g t"

\* The Options of the calls that run concurrently (Spec): one configuration.
PoolOptions == {[cfg |-> "cfg1", Method |-> "get"]}

Ops == {"Do", "Queue"}

\* What the transport does with a request: client.Do fails with an error, or
\* it answers with a reply whose body stream reads to the end ("ok") or
\* fails while being read ("bodyerr").
TransportErrs == {"refused", "timeout"}

Replies ==
  {[StatusCode |-> 200, Body |-> "gz(hello)",
    Header |-> ("Content-Encoding" :> <<"gzip">>) @@ ("Set-Cookie" :> <<"a=1", "b=2">>)]}

NoReply == [StatusCode |-> 0, Body |-> "", Header |-> <<>>]

NetOutcomes ==
  {[kind |-> "err", err |-> e, resp |-> NoReply] : e \in TransportErrs}
    \cup {[kind |-> k, err |-> "", resp |-> r] : k \in {"ok", "bodyerr"}, r \in Replies}

NoNet == [kind |-> "", err |-> "", resp |-> NoReply]

(***************************************************************************)
(* dispatcher (lines 66-101)                                               *)
(***************************************************************************)
\* The zero Response: the named result of dispatcher before it is assigned.
ZeroResponse == [RequestID |-> "", Status |-> 0, Body |-> "", Headers |-> <<>>]

\* parseError: the classification of a transport error.
parseError(e) ==
  CASE e = "timeout" -> [StatusCode |-> 408, ErrorMsg |-> "Request Time Out"]
    [] e = "refused" -> [StatusCode |-> 502, ErrorMsg |-> "Connection Refused"]
    [] OTHER -> [StatusCode |-> 0, ErrorMsg |-> ""]

\* DecompressBody: the body decoded per the Content-Encoding values.
DecompressBody(bodyBytes, encoding) ==
  IF encoding = <<"gzip">> /\ bodyBytes = "gz(hello)" THEN "hello" ELSE bodyBytes

\* resp.Header[name]: the values of a header, nil when absent.
HeaderValues(H, name) == IF name \in DOMAIN H THEN H[name] ELSE <<>>

\* strings.Join(values, sep)
RECURSIVE Join(_, _)
Join(values, sep) ==
  IF Len(values) = 0 THEN ""
  ELSE IF Len(values) = 1 THEN values[1]
  ELSE values[1] \o sep \o Join(Tail(values), sep)

\* Flatten keeping the first value of a header instead of the last.
Flatten_firstValue(H) ==
  [name \in {n \in DOMAIN H : n = "Set-Cookie" \/ Len(H[n]) > 0} |->
     IF name = "Set-Cookie" THEN Join(H[name], "/,/") ELSE H[name][1]]

\* Lines 88-98: the response headers flattened into one mapping.
Flatten(H) ==
  [name \in {n \in DOMAIN H : n = "Set-Cookie" \/ Len(H[n]) > 0} |->
     IF name = "Set-Cookie" THEN Join(H[name], "/,/") ELSE H[name][Len(H[name])]]

\* dispatcher returning the transport error to its caller.
dispatcher_errReturned(res, net) ==
  IF net.kind \in {"err", "bodyerr"}
  THEN [response |-> ZeroResponse, err |-> "error"]
  ELSE [response |-> [RequestID |-> res.options.RequestID,
                      Status |-> net.resp.StatusCode,
                      Body |-> DecompressBody(net.resp.Body,
                                              HeaderValues(net.resp.Header, "Content-Encoding")),
                      Headers |-> Flatten(net.resp.Header)],
        err |-> "nil"]

dispatcher(res, net) ==
  IF net.kind = "err"
  THEN [response |-> [RequestID |-> res.options.RequestID,
                      Status |-> parseError(net.err).StatusCode,
                      Body |-> parseError(net.err).ErrorMsg \o "-> \n" \o net.err,
                      Headers |-> <<>>],
        err |-> "nil"]
  ELSE IF net.kind = "bodyerr"
  THEN [response |-> ZeroResponse, err |-> "read"]
  ELSE [response |-> [RequestID |-> res.options.RequestID,
                      Status |-> net.resp.StatusCode,
                      Body |-> DecompressBody(net.resp.Body,
                                              HeaderValues(net.resp.Header, "Content-Encoding")),
                      Headers |-> Flatten(net.resp.Header)],
        err |-> "nil"]

(***************************************************************************)
(* State                                                                   *)
(***************************************************************************)
VARIABLES
  cacheMade,     \* whether the handle's cacheClients is a made map (FALSE: nil)
  cacheClients,  \* the handle's cacheClients: host -> client
  built,         \* the clients newClient has constructed, in order; a client
                 \* is identified by its place in this sequence
  reqChan,       \* the handle's ReqChan: "nil", "open" or "closed"
  respChan,      \* the handle's RespChan: "nil", "open" or "closed"
  cs,            \* per calling goroutine: its position in Do/Queue and its locals
  ret,           \* what the Do that returned last returned
  wk,            \* per worker goroutine: its position in worker and its locals
  delivered,     \* what the reader of RespChan has received, in order, each
                 \* with the call and the handover it answers and the error
                 \* the worker logged for it
  calls,         \* the number of calls of Do and Queue made so far
  queued,        \* the number of those that are calls of Queue
  handed,        \* the number of Queue calls whose send has completed
  closePc,       \* the position of the goroutine that calls Close
  exited,        \* "no", or how the process ended
  in,            \* SpecBuild: the options processRequest is applied to;
                 \* SpecDispatch: the request and the transport's answer
  out            \* SpecBuild: the request built; SpecDispatch: the result

vars == <<cacheMade, cacheClients, built, reqChan, respChan, cs, ret, wk,
          delivered, calls, queued, handed, closePc, exited, in, out>>

poolVars == <<cacheMade, cacheClients, built, reqChan, respChan, cs, ret, wk,
              delivered, calls, queued, handed, closePc, exited>>

Idle == [pc |-> "idle", op |-> "", url |-> "", cfg |-> "", method |-> "",
         cl |-> 0, call |-> 0, why |-> ""]

\* A caller whose call of op ended in a panic at the place named by why.
Panicked(op, u, why) ==
  [Idle EXCEPT !.pc = "panicked", !.op = op, !.url = u, !.why = why]

NoRet == [returned |-> FALSE, response |-> ZeroResponse, err |-> "nil", net |-> NoNet]

NoWork == [client |-> 0, RequestID |-> "", call |-> 0, seq |-> 0]

\* A worker at position pc that holds no request.
Worker(pc) == [pc |-> pc, req |-> NoWork, response |-> ZeroResponse, err |-> "nil"]

NoInput == [URL |-> "", UserAgent |-> "", Headers |-> <<>>, HeaderOrder |-> <<>>]

NoOutput == [built |-> FALSE, Header |-> <<>>]

\* The cycleTLSRequest built at lines 109 and 119.
RequestIDOf(op) == IF op = "Queue" THEN "Queued Request" ELSE "cycleTLSRequest"

\* The fullRequest a caller holds after processRequest (line 235); the
\* request's headers are the subject of SpecBuild.
FullRequest(c) ==
  [client |-> cs[c].cl, options |-> [RequestID |-> RequestIDOf(cs[c].op)]]

\* Init (lines 241-251), for either value of its argument.
GoInit(workers) ==
  /\ cacheMade = ~workers
  /\ cacheClients = <<>>
  /\ reqChan = (IF workers THEN "open" ELSE "nil")
  /\ respChan = (IF workers THEN "open" ELSE "nil")
  /\ wk = [w \in Workers |-> Worker(IF workers THEN "recv" ELSE "none")]

Init ==
  /\ \E workers \in BOOLEAN : GoInit(workers)
  /\ built = <<>>
  /\ cs = [c \in Callers |-> Idle]
  /\ ret = NoRet
  /\ delivered = <<>>
  /\ calls = 0
  /\ queued = 0
  /\ handed = 0
  /\ closePc = "idle"
  /\ exited = "no"
  /\ in = NoInput
  /\ out = NoOutput

(***************************************************************************)
(* Do, Queue and processRequest                                            *)
(***************************************************************************)
Running == exited = "no"

\* The process ends (log.Fatal, a runtime throw, a panic in a goroutine of
\* the pool): its goroutines and its memory are gone.
Exit(how) ==
  /\ exited' = how
  /\ cacheMade' = FALSE
  /\ cacheClients' = <<>>
  /\ built' = <<>>
  /\ reqChan' = "nil"
  /\ respChan' = "nil"
  /\ cs' = [c \in Callers |-> Idle]
  /\ ret' = NoRet
  /\ wk' = [w \in Workers |-> Worker("none")]
  /\ delivered' = <<>>
  /\ calls' = 0
  /\ queued' = 0
  /\ handed' = 0
  /\ closePc' = "idle"
  /\ UNCHANGED <<in, out>>

InCall(c) == cs[c].pc \notin {"idle", "panicked"}

\* The return of processRequest (line 235) to Do (line 122) or to Queue
\* (line 111), for a caller whose client is cl and whose http.NewRequest
\* succeeded.
Built(c, cl) ==
  cs' = [cs EXCEPT ![c].cl = cl, ![c].method = "",
                   ![c].pc = IF cs[c].op = "Do" THEN "dispatch" ELSE "send"]

\* Do or Queue is called (lines 104-110, 115-121) and processRequest runs up
\* to url.Parse (lines 133-142), which panics on a URL that does not parse.
Call(c, op, u, options) ==
  /\ Running
  /\ ~InCall(c)
  /\ calls' = calls + 1
  /\ queued' = IF op = "Queue" THEN queued + 1 ELSE queued
  /\ cs' = [cs EXCEPT ![c] =
              IF UrlParses(u)
              THEN [pc |-> "lookup", op |-> op, url |-> u, cfg |-> options.cfg,
                    method |-> options.Method,
                    cl |-> 0, call |-> calls + 1, why |-> ""]
              ELSE Panicked(op, u, "url")]
  /\ UNCHANGED <<cacheMade, cacheClients, built, reqChan, respChan, ret, wk, delivered,
                 handed, closePc, exited, in, out>>

\* The calls of Do and Queue of Spec and SpecSeq, MaxCalls of them.
Begin(c, op, u, options) ==
  /\ calls < MaxCalls
  /\ Call(c, op, u, options)

\* Lookup taking a cached client for the host only if it was made from the
\* call's configuration.
Lookup_perConfig(c) ==
  /\ Running
  /\ cs[c].pc = "lookup"
  /\ IF \/ UrlHost(cs[c].url) \notin DOMAIN cacheClients
        \/ built[cacheClients[UrlHost(cs[c].url)]].cfg # cs[c].cfg
     THEN /\ cs' = [cs EXCEPT ![c].pc = "create"]
          /\ UNCHANGED <<cacheMade, cacheClients, built, reqChan, respChan, ret, wk,
                         delivered, calls, queued, handed, closePc, exited, in, out>>
     ELSE IF ~NewRequestOk(cs[c].method)
     THEN Exit("fatal")
     ELSE /\ Built(c, cacheClients[UrlHost(cs[c].url)])
          /\ UNCHANGED <<cacheMade, cacheClients, built, reqChan, respChan, ret, wk,
                         delivered, calls, queued, handed, closePc, exited, in, out>>

\* Line 143: the read of the cache map (a nil map reads as empty); on a hit
\* the request is built with the cached client.
Lookup(c) ==
  /\ Running
  /\ cs[c].pc = "lookup"
  /\ IF UrlHost(cs[c].url) \notin DOMAIN cacheClients
     THEN /\ cs' = [cs EXCEPT ![c].pc = "create"]
          /\ UNCHANGED <<cacheMade, cacheClients, built, reqChan, respChan, ret, wk,
                         delivered, calls, queued, handed, closePc, exited, in, out>>
     ELSE IF ~NewRequestOk(cs[c].method)
     THEN Exit("fatal")
     ELSE /\ Built(c, cacheClients[UrlHost(cs[c].url)])
          /\ UNCHANGED <<cacheMade, cacheClients, built, reqChan, respChan, ret, wk,
                         delivered, calls, queued, handed, closePc, exited, in, out>>

\* Lines 145-156: newClient, then the write of the cache map, which panics
\* on a nil map; then the request is built with the new client.
Create(c) ==
  /\ Running
  /\ cs[c].pc = "create"
  /\ IF ~newClientOk(cs[c].cfg)
     THEN Exit("fatal")
     ELSE IF ~cacheMade
     THEN /\ built' = Append(built, [host |-> UrlHost(cs[c].url), cfg |-> cs[c].cfg])
          /\ cs' = [cs EXCEPT ![c] = Panicked(cs[c].op, cs[c].url, "nilmap")]
          /\ UNCHANGED <<cacheMade, cacheClients, reqChan, respChan, ret, wk, delivered,
                         calls, queued, handed, closePc, exited, in, out>>
     ELSE IF ~NewRequestOk(cs[c].method)
     THEN Exit("fatal")
     ELSE /\ built' = Append(built, [host |-> UrlHost(cs[c].url), cfg |-> cs[c].cfg])
          /\ cacheClients' =
               [h \in DOMAIN cacheClients \cup {UrlHost(cs[c].url)} |->
                  IF h = UrlHost(cs[c].url) THEN Len(built) + 1 ELSE cacheClients[h]]
          /\ Built(c, Len(built) + 1)
          /\ UNCHANGED <<cacheMade, reqChan, respChan, ret, wk, delivered, calls,
                         queued, handed, closePc, exited, in, out>>

\* Lines 143 and 155 are unsynchronized accesses to one map: when a write by
\* one goroutine overlaps an access by another, the runtime may end the
\* process ("concurrent map writes", "concurrent map read and map write").
MapThrow(c) ==
  /\ Running
  /\ cacheMade
  /\ cs[c].pc = "create"
  /\ newClientOk(cs[c].cfg)
  /\ \E d \in Callers \ {c} : cs[d].pc \in {"lookup", "create"}
  /\ Exit("throw")

\* Do dropping the error of dispatcher.
DoDispatch_errDropped(c, net) ==
  /\ Running
  /\ cs[c].pc = "dispatch"
  /\ ret' = [returned |-> TRUE,
             response |-> dispatcher(FullRequest(c), net).response,
             err |-> "nil",
             net |-> net]
  /\ cs' = [cs EXCEPT ![c] = Idle]
  /\ UNCHANGED <<cacheMade, cacheClients, built, reqChan, respChan, wk, delivered,
                 calls, queued, handed, closePc, exited, in, out>>

\* Do, lines 122-129: dispatcher on the built request, and the return.
DoDispatch(c, net) ==
  /\ Running
  /\ cs[c].pc = "dispatch"
  /\ ret' = [returned |-> TRUE,
             response |-> dispatcher(FullRequest(c), net).response,
             err |-> dispatcher(FullRequest(c), net).err,
             net |-> net]
  /\ cs' = [cs EXCEPT ![c] = Idle]
  /\ UNCHANGED <<cacheMade, cacheClients, built, reqChan, respChan, wk, delivered,
                 calls, queued, handed, closePc, exited, in, out>>

\* Queue with a ReqChan that has room for the request: the send completes
\* without a worker receiving.
Handoff_buffered(c, w) ==
  /\ Running
  /\ cs[c].pc = "send"
  /\ reqChan = "open"
  /\ cs' = [cs EXCEPT ![c] = Idle]
  /\ handed' = handed + 1
  /\ UNCHANGED <<cacheMade, cacheClients, built, reqChan, respChan, ret, wk, delivered,
                 calls, queued, closePc, exited, in, out>>

\* Queue, line 111, with the receive of line 270: ReqChan is unbuffered, so
\* the send completes when a worker receives. (A send on a nil channel blocks
\* for ever.)
Handoff(c, w) ==
  /\ Running
  /\ cs[c].pc = "send"
  /\ reqChan = "open"
  /\ wk[w].pc = "recv"
  /\ wk' = [wk EXCEPT ![w] =
              [pc |-> "work",
               req |-> [client |-> FullRequest(c).client,
                        RequestID |-> FullRequest(c).options.RequestID,
                        call |-> cs[c].call, seq |-> handed + 1],
               response |-> ZeroResponse, err |-> "nil"]]
  /\ cs' = [cs EXCEPT ![c] = Idle]
  /\ handed' = handed + 1
  /\ UNCHANGED <<cacheMade, cacheClients, built, reqChan, respChan, ret, delivered,
                 calls, queued, closePc, exited, in, out>>

\* Queue, line 111, once Close has closed ReqChan: the send panics.
SendClosed(c) ==
  /\ Running
  /\ cs[c].pc = "send"
  /\ reqChan = "closed"
  /\ cs' = [cs EXCEPT ![c] = Panicked(cs[c].op, cs[c].url, "send")]
  /\ UNCHANGED <<cacheMade, cacheClients, built, reqChan, respChan, ret, wk, delivered,
                 calls, queued, handed, closePc, exited, in, out>>

(***************************************************************************)
(* worker (lines 269-277)                                                  *)
(***************************************************************************)
\* worker going back to its receive when dispatcher returned an error.
WorkerDispatch_suppress(w, net) ==
  /\ Running
  /\ wk[w].pc = "work"
  /\ wk' = [wk EXCEPT ![w] =
              IF dispatcher([client |-> wk[w].req.client,
                             options |-> [RequestID |-> wk[w].req.RequestID]],
                            net).err # "nil"
              THEN Worker("recv")
              ELSE [wk[w] EXCEPT !.pc = "reply",
                                 !.response =
                                    dispatcher([client |-> wk[w].req.client,
                                                options |-> [RequestID |-> wk[w].req.RequestID]],
                                               net).response]]
  /\ UNCHANGED <<cacheMade, cacheClients, built, reqChan, respChan, cs, ret, delivered,
                 calls, queued, handed, closePc, exited, in, out>>

\* Lines 271-274: dispatcher on the received request; an error is logged.
WorkerDispatch(w, net) ==
  /\ Running
  /\ wk[w].pc = "work"
  /\ wk' = [wk EXCEPT ![w].pc = "reply",
                      ![w].response =
                         dispatcher([client |-> wk[w].req.client,
                                     options |-> [RequestID |-> wk[w].req.RequestID]],
                                    net).response,
                      ![w].err =
                         dispatcher([client |-> wk[w].req.client,
                                     options |-> [RequestID |-> wk[w].req.RequestID]],
                                    net).err]
  /\ UNCHANGED <<cacheMade, cacheClients, built, reqChan, respChan, cs, ret, delivered,
                 calls, queued, handed, closePc, exited, in, out>>

\* A pool that hands its responses to the reader in the order in which it
\* was handed the requests.
Deliver_inOrder(w) ==
  /\ Running
  /\ wk[w].pc = "reply"
  /\ respChan = "open"
  /\ \A v \in Workers : wk[v].pc \in {"work", "reply"} => wk[w].req.seq <= wk[v].req.seq
  /\ delivered' = Append(delivered, [response |-> wk[w].response, call |-> wk[w].req.call,
                                     seq |-> wk[w].req.seq, err |-> wk[w].err])
  /\ wk' = [wk EXCEPT ![w] = Worker("recv")]
  /\ UNCHANGED <<cacheMade, cacheClients, built, reqChan, respChan, cs, ret, calls,
                 queued, handed, closePc, exited, in, out>>

\* Line 275 with the reader's receive: RespChan is unbuffered.
Deliver(w) ==
  /\ Running
  /\ wk[w].pc = "reply"
  /\ respChan = "open"
  /\ delivered' = Append(delivered, [response |-> wk[w].response, call |-> wk[w].req.call,
                                     seq |-> wk[w].req.seq, err |-> wk[w].err])
  /\ wk' = [wk EXCEPT ![w] = Worker("recv")]
  /\ UNCHANGED <<cacheMade, cacheClients, built, reqChan, respChan, cs, ret, calls,
                 queued, handed, closePc, exited, in, out>>

\* Line 275 once Close has closed RespChan: the send panics in the worker's
\* goroutine, which ends the process.
ReplyClosed(w) ==
  /\ Running
  /\ wk[w].pc = "reply"
  /\ respChan = "closed"
  /\ Exit("panic")

\* Line 270 once Close has closed ReqChan: the range loop ends.
WorkerExit(w) ==
  /\ Running
  /\ wk[w].pc = "recv"
  /\ reqChan = "closed"
  /\ wk' = [wk EXCEPT ![w].pc = "stopped"]
  /\ UNCHANGED <<cacheMade, cacheClients, built, reqChan, respChan, cs, ret, delivered,
                 calls, queued, handed, closePc, exited, in, out>>

(***************************************************************************)
(* Close (lines 254-258) and the handle's exported fields                  *)
(***************************************************************************)
\* Line 255: close(ReqChan) panics on a nil or closed channel.
CloseReq ==
  /\ Running
  /\ closePc \in {"idle", "done"}
  /\ IF reqChan = "open"
     THEN reqChan' = "closed" /\ closePc' = "mid"
     ELSE closePc' = "panicked" /\ UNCHANGED reqChan
  /\ UNCHANGED <<cacheMade, cacheClients, built, respChan, cs, ret, wk, delivered,
                 calls, queued, handed, exited, in, out>>

\* Line 256: close(RespChan).
CloseResp ==
  /\ Running
  /\ closePc = "mid"
  /\ IF respChan = "open"
     THEN respChan' = "closed" /\ closePc' = "done"
     ELSE closePc' = "panicked" /\ UNCHANGED respChan
  /\ UNCHANGED <<cacheMade, cacheClients, built, reqChan, cs, ret, wk, delivered,
                 calls, queued, handed, exited, in, out>>

\* ReqChan and RespChan are exported fields (lines 60-61): before its first
\* call, the owner of a handle made by Init() sets them to the channels of a
\* pool started by Init(true) (lines 243-245), whose workers then serve it.
AttachPool ==
  /\ Running
  /\ cacheMade
  /\ reqChan = "nil"
  /\ calls = 0
  /\ closePc = "idle"
  /\ reqChan' = "open"
  /\ respChan' = "open"
  /\ wk' = [w \in Workers |-> Worker("recv")]
  /\ UNCHANGED <<cacheMade, cacheClients, built, cs, ret, delivered, calls, queued,
                 handed, closePc, exited, in, out>>

(***************************************************************************)
(* Specifications of the handle                                            *)
(***************************************************************************)
Next ==
  \/ \E c \in Callers, op \in Ops, u \in URLs, options \in PoolOptions :
       Begin(c, op, u, options)
  \/ \E c \in Callers : Lookup(c)
  \/ \E c \in Callers : Create(c)
  \/ \E c \in Callers : MapThrow(c)
  \/ \E c \in Callers, net \in NetOutcomes : DoDispatch(c, net)
  \/ \E c \in Callers, w \in Workers : Handoff(c, w)
  \/ \E c \in Callers : SendClosed(c)
  \/ \E w \in Workers, net \in NetOutcomes : WorkerDispatch(w, net)
  \/ \E w \in Workers : Deliver(w)
  \/ \E w \in Workers : ReplyClosed(w)
  \/ \E w \in Workers : WorkerExit(w)
  \/ CloseReq
  \/ CloseResp
  \/ AttachPool

Spec == Init /\ [][Next]_vars

\* Calls made one after another: a call begins when no other call is inside
\* Do or Queue. The calls take every option and meet every transport outcome.
BeginSeq(c, op, u, options) ==
  /\ \A d \in Callers : ~InCall(d)
  /\ Begin(c, op, u, options)

NextSeq ==
  \/ \E c \in Callers, op \in Ops, u \in URLs, options \in OptionSet :
       BeginSeq(c, op, u, options)
  \/ \E c \in Callers : Lookup(c)
  \/ \E c \in Callers : Create(c)
  \/ \E c \in Callers, net \in NetOutcomes : DoDispatch(c, net)
  \/ \E c \in Callers, w \in Workers : Handoff(c, w)
  \/ \E c \in Callers : SendClosed(c)
  \/ \E w \in Workers, net \in NetOutcomes : WorkerDispatch(w, net)
  \/ \E w \in Workers : Deliver(w)
  \/ \E w \in Workers : ReplyClosed(w)
  \/ \E w \in Workers : WorkerExit(w)
  \/ CloseReq
  \/ CloseResp
  \/ AttachPool

SpecSeq == Init /\ [][NextSeq]_vars

(***************************************************************************)
(* Properties of the handle                                                *)
(***************************************************************************)
\* The handle is the one Init(true) returned: its channels are made and its
\* cache map is nil.
PooledHandle == ~cacheMade /\ reqChan # "nil"

\* No call is inside Do or Queue and no worker holds a request.
Quiet ==
  /\ \A c \in Callers : ~InCall(c)
  /\ \A w \in Workers : wk[w].pc \in {"recv", "stopped"}

\* The clients newClient has constructed for host h.
ClientsFor(h) == {i \in 1..Len(built) : built[i].host = h}

\* The host of the call caller c is making.
HostOf(c) == UrlHost(cs[c].url)

\* C1: on a handle started with the worker pool, once the Queue calls made
\* so far (here, with URLs that parse) have ended and the workers hold
\* nothing, the reader of RespChan has received exactly one response per
\* Queue call made.
Counterexample_C1 ==
  (/\ PooledHandle /\ reqChan = "open" /\ respChan = "open" /\ Quiet
   /\ \A c \in Callers : UrlParses(cs[c].url))
    => Len(delivered) = queued

\* C2: on a handle started with the worker pool, a Queue call with a valid
\* URL whose host is not cached does not fault where it stores the client it
\* constructed in the cache.
Counterexample_C2 ==
  \A c \in Callers :
    (PooledHandle /\ cs[c].op = "Queue" /\ UrlParses(cs[c].url))
      => ~(cs[c].pc = "panicked" /\ cs[c].why = "nilmap")

\* C3: the responses received from RespChan carry pairwise distinct
\* RequestIDs, each the RequestID of a Queue submission.
Counterexample_C3 ==
  /\ \A i, j \in 1..Len(delivered) :
       i # j => delivered[i].response.RequestID # delivered[j].response.RequestID
  /\ \A i \in 1..Len(delivered) :
       queued > 0 /\ delivered[i].response.RequestID = RequestIDOf("Queue")

\* C4: with calls made one after another, a cached client is never replaced
\* or removed, every built request is bound to the client cached for its host,
\* and a call that finds its host cached takes that client and leaves the
\* cache and the set of constructed clients as they were, whatever its
\* configuration.
BoundToCached ==
  \A c \in Callers :
    (cacheMade /\ cs[c].pc \in {"dispatch", "send"})
      => /\ HostOf(c) \in DOMAIN cacheClients
         /\ cs[c].cl = cacheClients[HostOf(c)]
         /\ ClientsFor(HostOf(c)) = {cs[c].cl}

CacheKept ==
  exited' = "no" =>
    \A h \in DOMAIN cacheClients :
      h \in DOMAIN cacheClients' /\ cacheClients'[h] = cacheClients[h]

HitReuses ==
  \A c \in Callers :
    (/\ cs[c].pc = "lookup"
     /\ HostOf(c) \in DOMAIN cacheClients
     /\ cs'[c] # cs[c]
     /\ exited' = "no")
      => /\ cs'[c].pc \in {"dispatch", "send"}
         /\ cs'[c].cl = cacheClients[HostOf(c)]
         /\ cacheClients' = cacheClients
         /\ built' = built

Theorem_C4 == []BoundToCached /\ [][CacheKept /\ HitReuses]_vars

\* A call has found its host cached with a client made from another
\* configuration than its own, and is bound to it.
Witness_C4 ==
  \E c \in Callers :
    /\ cs[c].pc \in {"dispatch", "send"}
    /\ HostOf(c) \in DOMAIN cacheClients
    /\ cs[c].cl = cacheClients[HostOf(c)]
    /\ built[cs[c].cl].cfg # cs[c].cfg

\* C5: on a handle with a cache, at most one client is ever constructed for
\* a host, and every built request for the host is bound to it, also when
\* the first calls for the host run concurrently.
Counterexample_C5 ==
  cacheMade =>
    /\ \A h \in {UrlHost(u) : u \in URLs} : Cardinality(ClientsFor(h)) <= 1
    /\ \A c \in Callers :
         cs[c].pc \in {"dispatch", "send"} => cs[c].cl = cacheClients[HostOf(c)]

\* C6: when the transport call fails, Do returns a nil error and a response
\* with the classified status of the failure, no headers and the RequestID
\* of the request.
Theorem_C6 ==
  (ret.returned /\ ret.net.kind = "err")
    => /\ ret.err = "nil"
       /\ ret.response.Status = parseError(ret.net.err).StatusCode
       /\ ret.response.Headers = <<>>
       /\ ret.response.RequestID = RequestIDOf("Do")

Witness_C6 == ret.returned /\ ret.net.kind = "err" /\ ret.response.Status = 408

\* C7: the error Do returns is non-nil exactly when the transport call
\* succeeded and reading the body failed.
Theorem_C7 == ret.returned => (ret.err # "nil" <=> ret.net.kind = "bodyerr")

Witness_C7 == ret.returned /\ ret.err # "nil"

\* C8: a call with a malformed URL does not end in a panic, constructs no
\* client and leaves the cache unchanged.
Counterexample_C8 ==
  [][\A c \in Callers :
       (cs'[c] # cs[c] /\ cs'[c].op # "" /\ ~UrlParses(cs'[c].url))
         => /\ cs'[c].pc # "panicked"
            /\ built' = built
            /\ cacheClients' = cacheClients]_vars

(***************************************************************************)
(* processRequest, lines 162-235: the headers of the built request         *)
(***************************************************************************)
MaxHeaders == 2
MaxOrder == 2

\* The names a caller's header map is drawn from, and the names of its
\* explicit header-order list.
HeaderNames ==
  {"Accept", "accept", "Host", "HOST", "User-Agent", "USER-AGENT",
   "Content-Length", "content-length", "X-Id"}

OrderNames == {"accept", "Accept", "x-id", "user-agent"}

HeaderVals == {"v1", "v2"}

UserAgents == {"", "ua"}

\* strings.ToLower (lines 168, 207) on the names above.
ToLower(n) ==
  CASE n \in {"Accept", "accept"} -> "accept"
    [] n \in {"Host", "HOST", "host"} -> "host"
    [] n \in {"User-Agent", "USER-AGENT", "user-agent"} -> "user-agent"
    [] n \in {"Content-Length", "content-length"} -> "content-length"
    [] n \in {"X-Id", "x-id"} -> "x-id"
    [] OTHER -> n

\* The key under which Header.Set stores a name (lines 230, 233, 234): its
\* canonical MIME form.
CanonicalHeaderKey(n) ==
  CASE n \in {"Accept", "accept"} -> "Accept"
    [] n \in {"Host", "HOST", "host"} -> "Host"
    [] n \in {"User-Agent", "USER-AGENT", "user-agent"} -> "User-Agent"
    [] n \in {"Content-Length", "content-length"} -> "Content-Length"
    [] n \in {"X-Id", "x-id"} -> "X-Id"
    [] OTHER -> n

\* http.HeaderOrderKey and http.PHeaderOrderKey (lines 218-219).
HeaderOrderKey == "Header-Order:"

PHeaderOrderKey == "PHeader-Order:"

\* Lines 172-199: the built-in header order.
DefaultHeaderOrder ==
  <<"host", "connection", "cache-control", "device-memory", "viewport-width",
    "rtt", "downlink", "ect", "sec-ch-ua", "sec-ch-ua-mobile",
    "sec-ch-ua-full-version", "sec-ch-ua-arch", "sec-ch-ua-platform",
    "sec-ch-ua-platform-version", "sec-ch-ua-model", "upgrade-insecure-requests",
    "user-agent", "accept", "sec-fetch-site", "sec-fetch-mode", "sec-fetch-user",
    "sec-fetch-dest", "referer", "accept-encoding", "accept-language", "cookie">>

\* Lines 162-200: the header order in force.
headerOrder(options) ==
  IF Len(options.HeaderOrder) > 0
  THEN [i \in 1..Len(options.HeaderOrder) |-> ToLower(options.HeaderOrder[i])]
  ELSE DefaultHeaderOrder

\* The orders in which a range over map m can visit its keys.
RangeOrders(m) ==
  {p \in [1..Cardinality(DOMAIN m) -> DOMAIN m] :
     \A i, j \in 1..Cardinality(DOMAIN m) : i # j => p[i] # p[j]}

\* Lines 206-212 for one key of the header order, the map visited in order p:
\* what is appended to headerorderkey.
RECURSIVE Appended(_, _)
Appended(key, p) ==
  IF Len(p) = 0 THEN <<>>
  ELSE (IF key = ToLower(Head(p)) THEN <<ToLower(Head(p))>> ELSE <<>>)
         \o Appended(key, Tail(p))

\* Lines 204-214: the values headerorderkey can end with, the inner range
\* visiting the map in any order at each key.
RECURSIVE headerorderkey(_, _)
headerorderkey(order, Headers) ==
  IF Len(order) = 0 THEN {<<>>}
  ELSE {a \o b : a \in {Appended(Head(order), p) : p \in RangeOrders(Headers)},
                 b \in headerorderkey(Tail(order), Headers)}

\* Header.Set(k, v)
HeaderSet(H, k, v) ==
  [n \in DOMAIN H \cup {CanonicalHeaderKey(k)} |->
     IF n = CanonicalHeaderKey(k) THEN <<v>> ELSE H[n]]

\* Lines 228-232, the map visited in order p.
RECURSIVE AppendHeaders(_, _, _)
AppendHeaders(H, Headers, p) ==
  IF Len(p) = 0 THEN H
  ELSE AppendHeaders(IF Head(p) # "Content-Length"
                     THEN HeaderSet(H, Head(p), Headers[Head(p)])
                     ELSE H,
                     Headers, Tail(p))

\* The same with Host and user-agent set before the caller's headers.
RequestHeader_hostFirst(options, orderkey, p) ==
  AppendHeaders(
    HeaderSet(HeaderSet((HeaderOrderKey :> orderkey)
                          @@ (PHeaderOrderKey :> <<":method", ":authority", ":scheme", ":path">>),
                        "Host", UrlHost(options.URL)),
              "user-agent", options.UserAgent),
    options.Headers, p)

\* Lines 217-234: req.Header, given the header-order sequence and the order p
\* in which the range of line 228 visits the map.
RequestHeader(options, orderkey, p) ==
  HeaderSet(HeaderSet(AppendHeaders((HeaderOrderKey :> orderkey)
                                      @@ (PHeaderOrderKey :> <<":method", ":authority", ":scheme", ":path">>),
                                    options.Headers, p),
                      "Host", UrlHost(options.URL)),
            "user-agent", options.UserAgent)

\* The header maps and header-order lists the options are drawn from.
HeaderMaps ==
  UNION {[D -> HeaderVals] : D \in {S \in SUBSET HeaderNames : Cardinality(S) <= MaxHeaders}}

OrderLists == UNION {[1..n -> OrderNames] : n \in 0..MaxOrder}

BuildInputs ==
  [URL : {u \in URLs : UrlParses(u)}, UserAgent : UserAgents,
   Headers : HeaderMaps, HeaderOrder : OrderLists]

InitBuild ==
  /\ GoInit(FALSE)
  /\ built = <<>>
  /\ cs = [c \in Callers |-> Idle]
  /\ ret = NoRet
  /\ delivered = <<>>
  /\ calls = 0
  /\ queued = 0
  /\ handed = 0
  /\ closePc = "idle"
  /\ exited = "no"
  /\ in \in BuildInputs
  /\ out = NoOutput

\* processRequest builds the request's headers from the options.
BuildRequest ==
  /\ ~out.built
  /\ \E orderkey \in headerorderkey(headerOrder(in), in.Headers),
        p \in RangeOrders(in.Headers) :
       out' = [built |-> TRUE, Header |-> RequestHeader(in, orderkey, p)]
  /\ UNCHANGED <<poolVars, in>>

NextBuild == BuildRequest

SpecBuild == InitBuild /\ [][NextBuild]_vars

\* The names of the caller's headers, lower-cased.
LowerNames(Headers) == {ToLower(k) : k \in DOMAIN Headers}

\* The members of sequence s that are in set S, in the order of s.
RECURSIVE Restrict(_, _)
Restrict(s, S) ==
  IF Len(s) = 0 THEN <<>>
  ELSE (IF Head(s) \in S THEN <<Head(s)>> ELSE <<>>) \o Restrict(Tail(s), S)

\* C9: the header-order sequence of the built request is the lower-cased
\* precedence list restricted to the lower-cased names of the caller's
\* headers, in the order of the list.
Counterexample_C9 ==
  out.built =>
    out.Header[HeaderOrderKey] = Restrict(headerOrder(in), LowerNames(in.Headers))

\* C10: the built request's Host header is the host of the URL and its
\* User-Agent header is the options' user agent, and it has no other header
\* whose name is Host or User-Agent in another letter case.
Theorem_C10 ==
  out.built =>
    /\ out.Header["Host"] = <<UrlHost(in.URL)>>
    /\ out.Header["User-Agent"] = <<in.UserAgent>>
    /\ \A n \in DOMAIN out.Header :
         ToLower(n) \in {"host", "user-agent"} => n \in {"Host", "User-Agent"}

\* A request built from a header map that holds its own Host and User-Agent
\* entries, in other letter cases and with other values.
Witness_C10 ==
  /\ out.built
  /\ "HOST" \in DOMAIN in.Headers /\ in.Headers["HOST"] # UrlHost(in.URL)
  /\ "USER-AGENT" \in DOMAIN in.Headers /\ in.Headers["USER-AGENT"] # in.UserAgent

\* C11: the built request has no header whose name is Content-Length in
\* any letter case.
Counterexample_C11 ==
  out.built => \A n \in DOMAIN out.Header : ToLower(n) # "content-length"

\* C18: the headers of the built request, the header-order sequence among
\* them, are the ones every iteration order of the header map leads to, and
\* the header-order sequence lists no name twice.
Counterexample_C18 ==
  out.built =>
    /\ \A orderkey \in headerorderkey(headerOrder(in), in.Headers),
          p \in RangeOrders(in.Headers) :
         out.Header = RequestHeader(in, orderkey, p)
    /\ \A i, j \in 1..Len(out.Header[HeaderOrderKey]) :
         i # j => out.Header[HeaderOrderKey][i] # out.Header[HeaderOrderKey][j]

(***************************************************************************)
(* dispatcher as a function (lines 66-101)                                 *)
(***************************************************************************)
MaxValues == 2

\* The header names and values of the replies; as the transport parses
\* them, every header of a reply has at least one value.
RespHeaderNames == {"Set-Cookie", "Content-Type", "X-A"}

RespValues == {"a", "b"}

ValueLists == UNION {[1..n -> RespValues] : n \in 1..MaxValues}

RawHeaders == UNION {[D -> ValueLists] : D \in SUBSET RespHeaderNames}

DispatchInputs ==
  [res : {[client |-> 1, options |-> [RequestID |-> RequestIDOf(op)]] : op \in Ops},
   net : NetOutcomes
           \cup {[kind |-> "ok", err |-> "",
                  resp |-> [StatusCode |-> 200, Body |-> "hello", Header |-> H]] :
                 H \in RawHeaders}]

InitDispatch ==
  /\ GoInit(FALSE)
  /\ built = <<>>
  /\ cs = [c \in Callers |-> Idle]
  /\ ret = NoRet
  /\ delivered = <<>>
  /\ calls = 0
  /\ queued = 0
  /\ handed = 0
  /\ closePc = "idle"
  /\ exited = "no"
  /\ in \in DispatchInputs
  /\ out = NoOutput

\* dispatcher is applied to the request and the transport's answer.
Dispatch ==
  /\ ~out.built
  /\ out' = [built |-> TRUE,
             response |-> dispatcher(in.res, in.net).response,
             err |-> dispatcher(in.res, in.net).err]
  /\ UNCHANGED <<poolVars, in>>

NextDispatch == Dispatch

SpecDispatch == InitDispatch /\ [][NextDispatch]_vars

\* The values vs, each but the first preceded by the separator "/,/".
RECURSIVE SepJoined(_)
SepJoined(vs) ==
  IF Len(vs) = 1 THEN vs[1]
  ELSE SepJoined(SubSeq(vs, 1, Len(vs) - 1)) \o "/,/" \o vs[Len(vs)]

\* C12: on a successful exchange the flattened headers have exactly the
\* names of the reply's headers; Set-Cookie is its values in order joined by
\* "/,/", every other header is the last of its values.
Theorem_C12 ==
  (out.built /\ in.net.kind = "ok") =>
    /\ DOMAIN out.response.Headers = DOMAIN in.net.resp.Header
    /\ \A n \in DOMAIN in.net.resp.Header :
         out.response.Headers[n] =
           IF n = "Set-Cookie" THEN SepJoined(in.net.resp.Header[n])
           ELSE in.net.resp.Header[n][Len(in.net.resp.Header[n])]

\* A reply with two Set-Cookie values and two differing values of another
\* header has been flattened.
Witness_C12 ==
  /\ out.built /\ in.net.kind = "ok"
  /\ "Set-Cookie" \in DOMAIN in.net.resp.Header
  /\ Len(in.net.resp.Header["Set-Cookie"]) = 2
  /\ "X-A" \in DOMAIN in.net.resp.Header
  /\ in.net.resp.Header["X-A"] = <<"a", "b">>
  /\ out.response.Headers["X-A"] = "b"

(***************************************************************************)
(* Properties of the worker pool                                           *)
(***************************************************************************)
\* C13 as stated: no response is received from RespChan for a request whose
\* dispatch returned an error.
Counterexample_C13 == \A i \in 1..Len(delivered) : delivered[i].err = "nil"

\* C13: a worker whose dispatch has ended, with an error or without, goes on
\* to the send of line 275, and leaves it only by handing the response it
\* holds to the reader; the response for a request whose dispatch returned an
\* error is the zero Response.
ErrorYieldsZero ==
  \A i \in 1..Len(delivered) :
    delivered[i].err # "nil" => delivered[i].response = ZeroResponse

WorkerSends ==
  \A w \in Workers :
    (wk'[w] # wk[w] /\ exited' = "no") =>
      /\ wk[w].pc = "work" => wk'[w].pc = "reply"
      /\ wk[w].pc = "reply" =>
           /\ wk'[w].pc = "recv"
           /\ Len(delivered') = Len(delivered) + 1
           /\ delivered'[Len(delivered')].response = wk[w].response
           /\ delivered'[Len(delivered')].call = wk[w].req.call

Theorem_C13 == []ErrorYieldsZero /\ [][WorkerSends]_vars

\* The reader has received the response for a request whose dispatch
\* returned an error.
Witness_C13 == \E i \in 1..Len(delivered) : delivered[i].err # "nil"

\* C14: the process is not ended by a worker's send on the closed RespChan,
\* and no Queue call panics at its send because ReqChan is closed.
Counterexample_C14 ==
  /\ exited # "panic"
  /\ \A c \in Callers : ~(cs[c].pc = "panicked" /\ cs[c].why = "send")

\* C15: once Close has closed ReqChan, no request is handed to a worker, and
\* a worker only moves on towards the end of its receive loop: from the
\* dispatch to the send, from the send to the receive, from the receive out
\* of the loop.
Counterexample_C15 ==
  [][(reqChan = "closed" /\ exited' \in {"no", "panic"}) =>
       /\ exited' = "no" => handed' = handed
       /\ \A w \in Workers :
            wk'[w] # wk[w] => wk'[w].pc \in {"reply", "recv", "stopped"}]_vars

\* C17: when two workers hold responses and the reader is ready, the
\* response for the request handed over later can be the one received first.
Theorem_C17 ==
  \A v, w \in Workers :
    (/\ Running /\ respChan = "open"
     /\ wk[v].pc = "reply" /\ wk[w].pc = "reply"
     /\ wk[v].req.seq < wk[w].req.seq)
      => ENABLED Deliver(w)

\* The reader has received the response for a request before the response
\* for a request that was handed to the pool earlier.
Witness_C17 ==
  \E i, j \in 1..Len(delivered) : i < j /\ delivered[i].seq > delivered[j].seq

(***************************************************************************)
(* The pool under more Queue calls than it has workers                     *)
(***************************************************************************)
\* One Queue call more than the pool has workers.
QueueCalls == NumWorkers + 1

\* The inputs of these calls: one URL, and a transport that answers.
QueueURLs == {"http://a/"}

QueueOutcomes == {net \in NetOutcomes : net.kind \in {"ok", "bodyerr"}}

BeginQueue(c, u, options) ==
  /\ calls < QueueCalls
  /\ Call(c, "Queue", u, options)

NextQueue ==
  \/ \E c \in Callers, u \in QueueURLs, options \in PoolOptions :
       BeginQueue(c, u, options)
  \/ \E c \in Callers : Lookup(c)
  \/ \E c \in Callers : Create(c)
  \/ \E c \in Callers : MapThrow(c)
  \/ \E c \in Callers, w \in Workers : Handoff(c, w)
  \/ \E w \in Workers, net \in QueueOutcomes : WorkerDispatch(w, net)
  \/ \E w \in Workers : Deliver(w)
  \/ AttachPool

SpecQueue == Init /\ [][NextQueue]_vars

\* The workers that hold a request: received and not yet answered.
Holding == {w \in Workers : wk[w].pc \in {"work", "reply"}}

\* C16: the Queue calls that have returned and whose response has not been
\* received by the reader are the requests the workers hold, one per worker
\* at most: never more than the pool has workers, so that with nothing
\* received no more than that many Queue calls have returned.
Theorem_C16 ==
  /\ handed - Len(delivered) = Cardinality(Holding)
  /\ handed - Len(delivered) <= NumWorkers
  /\ delivered = <<>> => handed <= NumWorkers

\* Nothing has been received, every worker is blocked in its send, and one
\* more Queue call is blocked in its send.
Witness_C16 ==
  /\ delivered = <<>>
  /\ handed = NumWorkers
  /\ \A w \in Workers : wk[w].pc = "reply"
  /\ \E c \in Callers : cs[c].pc = "send"

====
